---- MODULE Spec2Model ----
(***************************************************************************)
(* The request router of src/index.js (a Cloudflare Worker): six routes    *)
(* over a Product Store (KV) and an Order Store (D1 table `orders`).       *)
(* A request is a slot of `req`; every handler is cut at its `await`s, so   *)
(* that concurrent requests interleave exactly where the code lets them.   *)
(***************************************************************************)
EXTENDS Integers, Sequences, FiniteSets, TLC

(* ---------------------------- bounds ----------------------------------- *)
MaxReqs   == 2   \* requests in flight at once
MaxItems  == 2   \* longest items array of a checkout body
MaxOrders == 2   \* rows the orders table may hold
MaxSec    == 1   \* the clock runs over seconds 0..MaxSec
MaxMs     == 1   \* ... and milliseconds 0..MaxMs within each second
MaxRand   == 2   \* distinct suffixes Math.random() can produce

(* ------------------------ program constants ---------------------------- *)
MsPerSec      == 1000   \* Math.floor(Date.now() / 1000), new Date(s * 1000)
StatusOK      == 200
StatusCreated == 201
StatusBad     == 400
StatusMissing == 404
StatusError   == 500

(* --------------------------- JS values --------------------------------- *)
\* One shape for every primitive the handlers look at.  A property that is
\* absent from an object reads as undefined.
JSUndef   == [t |-> "undefined", n |-> 0, s |-> ""]
JSNull    == [t |-> "null", n |-> 0, s |-> ""]
JSInf     == [t |-> "infinity", n |-> 0, s |-> ""]
JSNum(k)  == [t |-> "number", n |-> k, s |-> ""]
JSStr(x)  == [t |-> "string", n |-> 0, s |-> x]

\* !!v
Truthy(v) ==
  CASE v.t = "undefined" -> FALSE
    [] v.t = "null"      -> FALSE
    [] v.t = "number"    -> v.n # 0
    [] v.t = "infinity"  -> TRUE
    [] v.t = "string"    -> v.s # ""

\* ToNumber on a string: the numeric strings of the model, NaN for the rest.
NumericStrings == {"0", "2"}
StrToNum(x) == IF x = "0" THEN 0 ELSE 2

\* v < 1 (abstract relational comparison; NaN compares false)
LessThanOne(v) ==
  CASE v.t = "undefined" -> FALSE
    [] v.t = "null"      -> TRUE
    [] v.t = "number"    -> v.n < 1
    [] v.t = "infinity"  -> FALSE
    [] v.t = "string"    -> IF v.s = "" THEN TRUE
                            ELSE IF v.s \in NumericStrings THEN StrToNum(v.s) < 1
                            ELSE FALSE

(* ------------------------------ JSON ----------------------------------- *)
\* JSON text is modelled by its literals: a number, a string, null, or a
\* property left out.  There is no literal for undefined or Infinity.
TxtAbsent  == [k |-> "absent", n |-> 0, s |-> ""]
TxtNull    == [k |-> "null", n |-> 0, s |-> ""]
TxtNum(m)  == [k |-> "number", n |-> m, s |-> ""]
TxtStr(x)  == [k |-> "string", n |-> 0, s |-> x]

\* JSON.stringify of a property value
StringifyValue(v) ==
  CASE v.t = "undefined" -> TxtAbsent
    [] v.t = "null"      -> TxtNull
    [] v.t = "number"    -> TxtNum(v.n)
    [] v.t = "infinity"  -> TxtNull
    [] v.t = "string"    -> TxtStr(v.s)

\* JSON.parse of a property literal
ParseValue(x) ==
  CASE x.k = "absent" -> JSUndef
    [] x.k = "null"   -> JSNull
    [] x.k = "number" -> JSNum(x.n)
    [] x.k = "string" -> JSStr(x.s)

\* JSON.stringify(items)
StringifyItems(items) ==
  [j \in 1..Len(items) |->
     [id |-> StringifyValue(items[j].id),
      quantity |-> StringifyValue(items[j].quantity)]]

\* JSON.parse(order.items)
ParseItems(txt) ==
  [j \in 1..Len(txt) |->
     [id |-> ParseValue(txt[j].id), quantity |-> ParseValue(txt[j].quantity)]]

\* new Date(seconds * 1000).toISOString()
ToISO(sec) == [iso |-> sec * MsPerSec]

(* ----------------------------- inputs ---------------------------------- *)
ProductIds == {"p1", "p2"}
KeyOrder   == <<"p1", "p2">>      \* KV lists keys in lexicographic order
Doc(key)   == [id |-> key, name |-> key]

Item(i, q) == [id |-> i, quantity |-> q]
Items ==
  { Item(JSStr("p1"), JSNum(1)),      Item(JSStr("p1"), JSNum(0)),
    Item(JSUndef, JSNum(1)),          Item(JSStr("p2"), JSStr("abc")),
    Item(JSStr("p1"), JSInf) }

ItemArrays(S) == UNION { [1..k -> S] : k \in 0..MaxItems }

\* What request.json() resolves to: it rejects (the text is no JSON), or gives
\* the parsed value, here null or an object.  `items` is the array when the
\* property is one, and `rawItems` the property's value when it is not.
Body(kd, nm, ph, ad, arr, its, raw) ==
  [kind |-> kd, name |-> nm, phone |-> ph, address |-> ad,
   isArray |-> arr, items |-> its, rawItems |-> raw]
NoBody   == Body("none", JSUndef, JSUndef, JSUndef, FALSE, <<>>, JSUndef)
BadJson  == Body("unparseable", JSUndef, JSUndef, JSUndef, FALSE, <<>>, JSUndef)
NullJson == Body("null", JSUndef, JSUndef, JSUndef, FALSE, <<>>, JSUndef)
Ann  == JSStr("Ann")
Tel  == JSStr("555")
Elm  == JSStr("12 Elm")
OneItem == << Item(JSStr("p1"), JSNum(1)) >>
TwoItems == << Item(JSStr("p2"), JSNum(2)), Item(JSStr("p1"), JSNum(1)) >>
Obj(nm, ph, ad, arr, its, raw) == Body("object", nm, ph, ad, arr, its, raw)
GoodBody(its) == Obj(Ann, Tel, Elm, TRUE, its, JSUndef)

FieldBodies ==
  { BadJson, NullJson,
    Obj(JSUndef, Tel, Elm, TRUE, OneItem, JSUndef),
    Obj(JSStr(""), Tel, Elm, TRUE, OneItem, JSUndef),
    Obj(Ann, JSUndef, Elm, TRUE, OneItem, JSUndef),
    Obj(Ann, Tel, JSNull, TRUE, OneItem, JSUndef),
    Obj(Ann, Tel, Elm, FALSE, <<>>, JSUndef),
    Obj(Ann, Tel, Elm, FALSE, <<>>, JSStr("p1")) }

AllBodies   == FieldBodies \cup { GoodBody(its) : its \in ItemArrays(Items) }
FewBodies   == { BadJson, GoodBody(<<>>), GoodBody(OneItem),
                 GoodBody(<< Item(JSStr("p1"), JSNum(0)) >>) }
ValidBodies == { GoodBody(OneItem), GoodBody(TwoItems) }

\* Date.now() over the model's clock, and the suffixes of Math.random()
Times == { sec * MsPerSec + ms : sec \in 0..MaxSec, ms \in 0..MaxMs }
Rands == 1..MaxRand

\* `ord_${Date.now()}_${suffix}`: the text is one-to-one with the pair
OrderId(ms, rnd) == [ts |-> ms, rnd |-> rnd]
OrderIds == { OrderId(t, x) : t \in Times, x \in Rands }
NoId     == [ts |-> 0 - 1, rnd |-> 0]

Methods == {"GET", "POST", "OPTIONS", "DELETE"}
FixedPaths ==
  { <<"products">>, <<"product", "p1">>, <<"product", "p2">>, <<"checkout">>,
    <<"orders">>, <<"health">>, <<>>, <<"product">>, <<"order">>,
    <<"products", "p1">>, <<"unknown">> }
OrderPaths == { <<"order", id>> : id \in OrderIds }
Paths == FixedPaths \cup { <<"order", OrderId(0, x)>> : x \in Rands }

(* ----------------------------- routing --------------------------------- *)
\* url.pathname.startsWith('/' + seg + '/')
StartsWith(path, seg) == Len(path) >= 2 /\ path[1] = seg
\* url.pathname.split('/').pop()
LastSegment(path) == path[Len(path)]

\* The routes matched on the path alone
RouteAnyMethod(method, path) ==
  IF method = "OPTIONS" THEN "preflight"
  ELSE IF path = <<"products">> THEN "products"
  ELSE IF StartsWith(path, "product") THEN "product"
  ELSE IF path = <<"checkout">> THEN "checkout"
  ELSE IF path = <<"orders">> THEN "orders"
  ELSE IF StartsWith(path, "order") THEN "order"
  ELSE IF path = <<"health">> THEN "health"
  ELSE "default"

\* The chain of `if (request.method === ... && url.pathname ...)` of fetch()
Route(method, path) ==
  IF method = "OPTIONS" THEN "preflight"
  ELSE IF method = "GET" /\ path = <<"products">> THEN "products"
  ELSE IF method = "GET" /\ StartsWith(path, "product") THEN "product"
  ELSE IF method = "POST" /\ path = <<"checkout">> THEN "checkout"
  ELSE IF method = "GET" /\ path = <<"orders">> THEN "orders"
  ELSE IF method = "GET" /\ StartsWith(path, "order") THEN "order"
  ELSE IF method = "GET" /\ path = <<"health">> THEN "health"
  ELSE "default"

(* ---------------------------- responses -------------------------------- *)
ContentTypeJson == <<"Content-Type", "application/json">>
AllowOrigin     == <<"Access-Control-Allow-Origin", "*">>
JsonHeaders     == {ContentTypeJson, AllowOrigin}
PreflightHeaders ==
  { AllowOrigin,
    <<"Access-Control-Allow-Methods", "GET, POST, OPTIONS, DELETE">>,
    <<"Access-Control-Allow-Headers", "Content-Type">> }

Response(st, hd, bd) == [status |-> st, headers |-> hd, body |-> bd]
NoResp == Response(0, {}, [kind |-> "none"])

Preflight == Response(StatusOK, PreflightHeaders, [kind |-> "empty"])
JsonResponse(st, bd) == Response(st, JsonHeaders, bd)
ErrorBody(msg) == [kind |-> "error", error |-> msg]
\* An error response built without the cross-origin header
ErrorResponseBare(st, msg) == Response(st, {ContentTypeJson}, ErrorBody(msg))
ErrorResponse(st, msg) == JsonResponse(st, ErrorBody(msg))

KvNotConfigured == ErrorResponse(StatusError, "Products KV binding not configured")
DbNotConfigured == ErrorResponse(StatusError, "Database binding not configured")
MissingFields ==
  ErrorResponse(StatusBad, "Missing required fields: name, phone, address, items (array)")
CartEmpty == ErrorResponse(StatusBad, "Cart is empty")
InvalidItem(item) ==
  JsonResponse(StatusBad,
    [kind |-> "error", error |-> "Each item must have id and valid quantity (>=1)",
     invalidItem |-> item])
DefaultResponse == JsonResponse(StatusOK, [kind |-> "descriptor", message |-> "E-commerce API"])

(* ------------------------------ state ---------------------------------- *)
VARIABLES
  kvBound,      \* env.PRODUCTS_KV is bound
  dbBound,      \* env.DB is bound
  tableExists,  \* setup.sql has been run on the database
  kv,           \* Product Store: the keys that hold a document
  orders,       \* Order Store: the rows of `orders`, in insertion order
  now,          \* Date.now()
  req,          \* the requests in flight, and the last response of each slot
  placed        \* history: one entry per 201 response, in response order

vars == <<kvBound, dbBound, tableExists, kv, orders, now, req, placed>>
stores == <<kvBound, dbBound, tableExists>>

Reqs == 1..MaxReqs

\* A Promise.all result array before any of its promises has settled
Unsettled == [kind |-> "unsettled"]
AllUnsettled(n) == [j \in 1..n |-> Unsettled]

Slot(pc, method, path, body, i, rows, pending, out, oid, cat, log, resp) ==
  [pc |-> pc, method |-> method, path |-> path, body |-> body, i |-> i,
   rows |-> rows, pending |-> pending, out |-> out, oid |-> oid, cat |-> cat,
   log |-> log, resp |-> resp]
Idle == Slot("idle", "", <<>>, NoBody, 0, <<>>, {}, <<>>, NoId, 0, {}, NoResp)

\* The handler returns `resp`
Return(q, resp) == [q EXCEPT !.pc = "done", !.resp = resp]
\* The handler is suspended at an await
Await(q, pc) == [q EXCEPT !.pc = pc]

(* --------------------------- Order Store ------------------------------- *)
\* orders(id TEXT PRIMARY KEY, name, phone, address, items, created_at)
Row(id, nm, ph, ad, txt, cat) ==
  [id |-> id, name |-> nm, phone |-> ph, address |-> ad, items |-> txt,
   created_at |-> cat]

\* A table created without the key: no insert is ever refused
NoPrimaryKey(tbl, id) == FALSE

\* id TEXT PRIMARY KEY: the insert is refused when a row holds the id
PrimaryKeyTaken(tbl, id) == \E j \in 1..Len(tbl) : tbl[j].id = id

\* INSERT OR REPLACE: a row that holds the id gives way to the new one
InsertOrReplace(tbl, row) ==
  IF PrimaryKeyTaken(tbl, row.id)
    THEN [ok |-> TRUE,
          tbl |-> [j \in 1..Len(tbl) |-> IF tbl[j].id = row.id THEN row ELSE tbl[j]]]
  ELSE [ok |-> TRUE, tbl |-> Append(tbl, row)]

\* INSERT INTO orders (...) VALUES (...): the row is added, or the statement
\* fails on the key and the table stays as it was
Insert(tbl, row) ==
  IF PrimaryKeyTaken(tbl, row.id) THEN [ok |-> FALSE, tbl |-> tbl]
  ELSE [ok |-> TRUE, tbl |-> Append(tbl, row)]

\* SELECT * FROM orders WHERE id = ? ... .first(): the rows with that id
RowsById(tbl, id) == SelectSeq(tbl, LAMBDA row : row.id = id)

\* SELECT id, name, phone, address, created_at FROM orders
Project(row) ==
  [id |-> row.id, name |-> row.name, phone |-> row.phone,
   address |-> row.address, created_at |-> row.created_at]

IsDescending(s) ==
  \A j \in 1..Len(s) - 1 : s[j].created_at >= s[j + 1].created_at

\* ... ORDER BY created_at DESC: every ordering of the rows that descends
\* (SQL leaves the order of equal timestamps open)
SelectAllDesc(tbl) ==
  { [j \in 1..Len(tbl) |-> Project(tbl[f[j]])] :
      f \in { g \in [1..Len(tbl) -> 1..Len(tbl)] :
                /\ \A a, b \in 1..Len(tbl) : a # b => g[a] # g[b]
                /\ IsDescending([j \in 1..Len(tbl) |-> tbl[g[j]]]) } }

(* --------------------------- Promise.all ------------------------------- *)
\* Results pushed as they arrive: each takes the first free place
PlaceAtNext(out, i, v) ==
  [out EXCEPT ![CHOOSE j \in 1..Len(out) :
                  /\ out[j] = [kind |-> "unsettled"]
                  /\ \A k \in 1..(j - 1) : out[k] # [kind |-> "unsettled"]] = v]

\* Promise.all keeps each result at the index of its promise
PlaceAt(out, i, v) == [out EXCEPT ![i] = v]

(* ------------------------------ dispatch ------------------------------- *)
Health ==
  JsonResponse(StatusOK,
    [kind |-> "health", status |-> "ok", timestamp |-> [iso |-> now],
     kv |-> kvBound, d1 |-> dbBound])

\* fetch(), from its entry to the first await of the matched route
Dispatch(method, path) ==
  LET q  == [Idle EXCEPT !.method = method, !.path = path]
      rt == Route(method, path)
  IN CASE rt = "preflight" -> Return(q, Preflight)
       [] rt = "products"  -> IF ~kvBound THEN Return(q, KvNotConfigured)
                              ELSE Await(q, "list")
       [] rt = "product"   -> IF ~kvBound THEN Return(q, KvNotConfigured)
                              ELSE Await(q, "kvget")
       [] rt = "checkout"  -> Await(q, "json")
       [] rt = "orders"    -> IF ~dbBound THEN Return(q, DbNotConfigured)
                              ELSE Await(q, "select")
       [] rt = "order"     -> IF ~dbBound THEN Return(q, DbNotConfigured)
                              ELSE Await(q, "first")
       [] rt = "health"    -> Return(q, Health)
       [] rt = "default"   -> Return(q, DefaultResponse)

InFlightCheckouts == { r \in Reqs : req[r].pc \in {"json", "kv", "insert"} }

\* A request arrives on a free slot (a slot whose response has been sent)
Receive(r, method, path) ==
  /\ req[r].pc \in {"idle", "done"}
  /\ Route(method, path) = "checkout" =>
       Len(orders) + Cardinality(InFlightCheckouts) < MaxOrders
  /\ req' = [req EXCEPT ![r] = Dispatch(method, path)]
  /\ UNCHANGED <<stores, kv, orders, now, placed>>

(* --------------------------- GET /products ----------------------------- *)
KvError == ErrorResponse(StatusError, "KV failure")

\* env.PRODUCTS_KV.list(): the keys that hold a document, in key order
ListKeys == SelectSeq(KeyOrder, LAMBDA key : key \in kv)

\* env.PRODUCTS_KV.get(key, { type: 'json' }): the document, or null
NullDoc == [id |-> "", name |-> ""]
KvGet(key) == IF key \in kv THEN Doc(key) ELSE NullDoc

\* The filter left out
AllProducts(products) == products

\* products.filter(p => p !== null)
ValidProducts(products) == SelectSeq(products, LAMBDA p : p # NullDoc)

ProductList(list) == JsonResponse(StatusOK, [kind |-> "products", list |-> list])

\* keys = await env.PRODUCTS_KV.list(), up to the fan-out
ProductsList(r, raised) ==
  /\ req[r].pc = "list"
  /\ LET q == req[r]
         keys == ListKeys
     IN req' = [req EXCEPT ![r] =
          IF raised THEN Return(q, KvError)
          ELSE IF Len(keys) = 0 THEN Return(q, ProductList(<<>>))
          ELSE [q EXCEPT !.pc = "gets", !.rows = keys,
                         !.pending = 1..Len(keys),
                         !.out = AllUnsettled(Len(keys))]]
  /\ UNCHANGED <<stores, kv, orders, now, placed>>

\* One of the concurrent gets settles; the last one resolves Promise.all
ProductsGet(r, i, raised) ==
  /\ req[r].pc = "gets"
  /\ i \in req[r].pending
  /\ LET q   == req[r]
         doc == KvGet(q.rows[i])
         out == PlaceAt(q.out, i, doc)
         q2  == [q EXCEPT !.out = out, !.pending = q.pending \ {i},
                          !.log = q.log \cup {<<q.rows[i], doc>>}]
     IN req' = [req EXCEPT ![r] =
          IF raised THEN Return(q, KvError)
          ELSE IF q2.pending = {} THEN Return(q2, ProductList(ValidProducts(out)))
          ELSE q2]
  /\ UNCHANGED <<stores, kv, orders, now, placed>>

(* -------------------------- GET /product/:id --------------------------- *)
ProductNotFound == ErrorResponse(StatusMissing, "Product not found")

ProductGet(r, raised) ==
  /\ req[r].pc = "kvget"
  /\ LET q         == req[r]
         productId == LastSegment(q.path)
     IN req' = [req EXCEPT ![r] =
          IF raised THEN Return(q, KvError)
          ELSE IF productId \in kv
            THEN Return(q, JsonResponse(StatusOK,
                             [kind |-> "product", doc |-> Doc(productId)]))
          ELSE Return(q, ProductNotFound)]
  /\ UNCHANGED <<stores, kv, orders, now, placed>>

(* --------------------------- POST /checkout ---------------------------- *)
\* !name || !phone || !address || !items || !Array.isArray(items)
ItemsFalsy(b) == ~b.isArray /\ ~Truthy(b.rawItems)
RequiredMissing(b) ==
  \/ ~Truthy(b.name)
  \/ ~Truthy(b.phone)
  \/ ~Truthy(b.address)
  \/ ItemsFalsy(b)
  \/ ~b.isArray

\* !item.id || !item.quantity || item.quantity < 1
ItemInvalid(item) ==
  \/ ~Truthy(item.id)
  \/ ~Truthy(item.quantity)
  \/ LessThanOne(item.quantity)

\* The loop `for (const item of items)` from item i to where it next leaves
\* the synchronous run: an invalid item ("bad"), the await of the KV lookup
\* of a valid item ("kv", only when the store is bound), or its end ("end").
RECURSIVE NextStop(_, _, _)
NextStop(items, i, bound) ==
  IF i > Len(items) THEN [stop |-> "end", at |-> i]
  ELSE IF ItemInvalid(items[i]) THEN [stop |-> "bad", at |-> i]
  ELSE IF bound THEN [stop |-> "kv", at |-> i]
  ELSE NextStop(items, i + 1, bound)

\* items.reduce((sum, item) => sum + item.quantity, 0): a number while every
\* quantity is one, Infinity once one is, a concatenated string once one is
\* a string.
RECURSIVE TotalItems(_, _, _)
TotalItems(items, j, sum) ==
  IF j > Len(items) THEN sum
  ELSE LET v == items[j].quantity
       IN TotalItems(items, j + 1,
            IF sum.t = "string" \/ v.t = "string" THEN JSStr("concatenated")
            ELSE IF sum.t = "infinity" \/ v.t = "infinity" THEN JSInf
            ELSE JSNum(sum.n + v.n))

Created(orderId, createdAt, b) ==
  JsonResponse(StatusCreated,
    [kind |-> "created", success |-> TRUE, orderId |-> orderId,
     message |-> "Order placed successfully", timestamp |-> createdAt,
     created_at |-> ToISO(createdAt),
     summary |-> [customer |-> b.name, itemCount |-> Len(b.items),
                  totalItems |-> StringifyValue(TotalItems(b.items, 1, JSNum(0)))]])

TableMissingCheckout ==
  JsonResponse(StatusError,
    [kind |-> "error",
     error |-> "Orders table not found. Please run the schema.sql file first.",
     details |-> "no such table: orders"])

\* The synchronous run of the checkout handler from item i on: to a 400, to
\* the await of a KV lookup, or through id generation to the await of the
\* insert.  `rnd` is what Math.random() gives should the run get that far.
Continue(q, i, rnd) ==
  LET st == NextStop(q.body.items, i, kvBound)
  IN CASE st.stop = "bad" -> Return(q, InvalidItem(q.body.items[st.at]))
       [] st.stop = "kv"  -> [q EXCEPT !.pc = "kv", !.i = st.at]
       [] st.stop = "end" ->
            IF ~dbBound THEN Return(q, DbNotConfigured)
            ELSE [q EXCEPT !.pc = "insert", !.oid = OrderId(now, rnd),
                           !.cat = now \div MsPerSec]

\* body = await request.json(), then the validation up to the first await
CheckoutParse(r, body, rnd) ==
  /\ req[r].pc = "json"
  /\ LET q == [req[r] EXCEPT !.body = body]
     IN req' = [req EXCEPT ![r] =
          CASE body.kind = "unparseable" ->
                 Return(q, ErrorResponse(StatusError, "Unexpected token in JSON"))
            [] body.kind = "null" ->
                 Return(q, ErrorResponse(StatusError, "Cannot destructure property of null"))
            [] OTHER ->
                 IF RequiredMissing(body) THEN Return(q, MissingFields)
                 ELSE IF Len(body.items) = 0 THEN Return(q, CartEmpty)
                 ELSE Continue(q, 1, rnd)]
  /\ UNCHANGED <<stores, kv, orders, now, placed>>

\* What the lookup of an item's product did: the handler only logs it
KvOutcome(key, raised) ==
  IF raised THEN "raised" ELSE IF key \in kv THEN "found" ELSE "missing"

\* A lookup that raises escapes to the handler's catch
AfterLookupStrict(q, seen, rnd) ==
  IF seen = "raised" THEN Return(q, ErrorResponse(StatusError, "KV failure"))
  ELSE Continue(q, q.i + 1, rnd)

\* try { ... get ... if (!product) warn } catch { warn }: on to the next item
AfterLookup(q, seen, rnd) == Continue(q, q.i + 1, rnd)

\* await env.PRODUCTS_KV.get(item.id) settles, whichever way
CheckoutKv(r, raised, rnd) ==
  /\ req[r].pc = "kv"
  /\ LET q    == req[r]
         seen == KvOutcome(q.body.items[q.i].id.s, raised)
     IN req' = [req EXCEPT ![r] =
          AfterLookup([q EXCEPT !.log = q.log \cup {seen}], seen, rnd)]
  /\ UNCHANGED <<stores, kv, orders, now, placed>>

\* What D1 raises when the key is taken, as the catch reports it
KeyConflict == ErrorResponse(StatusError, "UNIQUE constraint failed: orders.id")

\* INSERT INTO orders ... .run(), and the response that follows it
CheckoutInsert(r) ==
  /\ req[r].pc = "insert"
  /\ LET q   == req[r]
         b   == q.body
         row == Row(q.oid, b.name.s, b.phone.s, b.address.s,
                    StringifyItems(b.items), q.cat)
     IN IF ~tableExists
          THEN /\ req' = [req EXCEPT ![r] = Return(q, TableMissingCheckout)]
               /\ UNCHANGED <<orders, placed>>
        ELSE IF ~Insert(orders, row).ok
          THEN /\ req' = [req EXCEPT ![r] = Return(q, KeyConflict)]
               /\ UNCHANGED <<orders, placed>>
        ELSE /\ orders' = Insert(orders, row).tbl
             /\ placed' = Append(placed, [orderId |-> q.oid, items |-> b.items])
             /\ req' = [req EXCEPT ![r] = Return(q, Created(q.oid, q.cat, b))]
  /\ UNCHANGED <<stores, kv, now>>

(* ----------------------------- GET /orders ----------------------------- *)
OrdersTableMissing ==
  JsonResponse(StatusMissing,
    [kind |-> "error",
     error |-> "Orders table not found. No orders have been placed yet.",
     details |-> "no such table: orders"])

OrderList(list) == JsonResponse(StatusOK, [kind |-> "orders", list |-> list])

\* { ...order, items: JSON.parse(fullOrder.items), created_at: ISO }
WithParsedItems(order, full) ==
  [kind |-> "parsed", id |-> order.id, name |-> order.name,
   phone |-> order.phone, address |-> order.address,
   items |-> ParseItems(full.items), created_at |-> ToISO(order.created_at)]

\* `return order`: the row of the first select as it is
Unparsed(order) ==
  [kind |-> "raw", id |-> order.id, name |-> order.name, phone |-> order.phone,
   address |-> order.address, items |-> <<>>,
   created_at |-> [iso |-> 0 - 1]]

\* The callback of results.map for one row, given what the re-fetch found.
\* The text of a JSON array is never the empty string, so fullOrder.items is
\* truthy whenever the row is found.
Entry(order, found) ==
  IF Len(found) > 0 THEN WithParsedItems(order, found[1]) ELSE Unparsed(order)

\* results = await ...all(), up to the fan-out of the re-fetches
OrdersSelect(r) ==
  /\ req[r].pc = "select"
  /\ LET q == req[r]
     IN IF ~tableExists
          THEN req' = [req EXCEPT ![r] = Return(q, OrdersTableMissing)]
        ELSE \E results \in SelectAllDesc(orders) :
          req' = [req EXCEPT ![r] =
            IF Len(results) = 0 THEN Return(q, OrderList(<<>>))
            ELSE [q EXCEPT !.pc = "refetch", !.rows = results,
                           !.pending = 1..Len(results),
                           !.out = AllUnsettled(Len(results))]]
  /\ UNCHANGED <<stores, kv, orders, now, placed>>

\* One of the concurrent re-fetches settles; the last resolves Promise.all
OrdersRefetch(r, i) ==
  /\ req[r].pc = "refetch"
  /\ i \in req[r].pending
  /\ LET q   == req[r]
         out == PlaceAt(q.out, i, Entry(q.rows[i], RowsById(orders, q.rows[i].id)))
         q2  == [q EXCEPT !.out = out, !.pending = q.pending \ {i}]
     IN req' = [req EXCEPT ![r] =
          IF q2.pending = {} THEN Return(q2, OrderList(out)) ELSE q2]
  /\ UNCHANGED <<stores, kv, orders, now, placed>>

(* ---------------------------- GET /order/:id --------------------------- *)
OrderNotFound == ErrorResponse(StatusMissing, "Order not found")

OrderFound(order) ==
  JsonResponse(StatusOK,
    [kind |-> "order", id |-> order.id, name |-> order.name,
     phone |-> order.phone, address |-> order.address,
     items |-> ParseItems(order.items), created_at |-> ToISO(order.created_at)])

OrderFirst(r) ==
  /\ req[r].pc = "first"
  /\ LET q     == req[r]
         found == RowsById(orders, LastSegment(q.path))
     IN req' = [req EXCEPT ![r] =
          IF ~tableExists
            THEN Return(q, ErrorResponse(StatusError, "no such table: orders"))
          ELSE IF Len(found) > 0 THEN Return(q, OrderFound(found[1]))
          ELSE Return(q, OrderNotFound)]
  /\ UNCHANGED <<stores, kv, orders, now, placed>>

(* ---------------------------- environment ------------------------------ *)
\* Time passes
Tick(t) ==
  /\ t > now
  /\ now' = t
  /\ UNCHANGED <<stores, kv, orders, req, placed>>

\* The Product Store is written by its owner, never by the router
KvPut(key) ==
  /\ key \notin kv
  /\ kv' = kv \cup {key}
  /\ UNCHANGED <<stores, orders, now, req, placed>>

KvDelete(key) ==
  /\ key \in kv
  /\ kv' = kv \ {key}
  /\ UNCHANGED <<stores, orders, now, req, placed>>

(* -------------------------- specifications ----------------------------- *)
\* Every configuration of the two bindings, the schema and the Product Store
Init ==
  /\ kvBound \in BOOLEAN
  /\ dbBound \in BOOLEAN
  /\ tableExists \in BOOLEAN
  /\ kv \in SUBSET ProductIds
  /\ orders = <<>>
  /\ now = 0
  /\ req = [r \in Reqs |-> Idle]
  /\ placed = <<>>

\* Both stores bound and set up, the Product Store not consulted
InitServing ==
  /\ kvBound = FALSE
  /\ dbBound = TRUE
  /\ tableExists = TRUE
  /\ kv = {}
  /\ orders = <<>>
  /\ now = 0
  /\ req = [r \in Reqs |-> Idle]
  /\ placed = <<>>

LeanPaths ==
  { <<"products">>, <<"product", "p1">>, <<"checkout">>, <<"orders">>,
    <<"order", OrderId(0, 1)>>, <<"health">>, <<"unknown">> }

\* The whole router under concurrent requests
Next ==
  \/ \E r \in Reqs, m \in Methods, p \in LeanPaths : Receive(r, m, p)
  \/ \E r \in Reqs, raised \in BOOLEAN : ProductsList(r, raised)
  \/ \E r \in Reqs, i \in 1..Len(KeyOrder), raised \in BOOLEAN : ProductsGet(r, i, raised)
  \/ \E r \in Reqs, raised \in BOOLEAN : ProductGet(r, raised)
  \/ \E r \in Reqs, b \in FewBodies, x \in Rands : CheckoutParse(r, b, x)
  \/ \E r \in Reqs, raised \in BOOLEAN, x \in Rands : CheckoutKv(r, raised, x)
  \/ \E r \in Reqs : CheckoutInsert(r)
  \/ \E r \in Reqs : OrdersSelect(r)
  \/ \E r \in Reqs, i \in 1..MaxOrders : OrdersRefetch(r, i)
  \/ \E r \in Reqs : OrderFirst(r)

Spec == Init /\ [][Next]_vars

\* One request at a time, over every method and path
NextRouter ==
  \/ \E m \in Methods, p \in Paths : Receive(1, m, p)
  \/ \E raised \in BOOLEAN : ProductsList(1, raised)
  \/ \E i \in 1..Len(KeyOrder), raised \in BOOLEAN : ProductsGet(1, i, raised)
  \/ \E raised \in BOOLEAN : ProductGet(1, raised)
  \/ \E b \in FewBodies, x \in Rands : CheckoutParse(1, b, x)
  \/ \E raised \in BOOLEAN, x \in Rands : CheckoutKv(1, raised, x)
  \/ CheckoutInsert(1)
  \/ OrdersSelect(1)
  \/ \E i \in 1..MaxOrders : OrdersRefetch(1, i)
  \/ OrderFirst(1)

SpecRouter == Init /\ [][NextRouter]_vars

\* Checkouts over every body, and reads of single orders
NextCheckout ==
  \/ \E p \in {<<"checkout">>} : Receive(1, "POST", p)
  \/ \E p \in OrderPaths : Receive(1, "GET", p)
  \/ \E b \in AllBodies, x \in Rands : CheckoutParse(1, b, x)
  \/ \E raised \in BOOLEAN, x \in Rands : CheckoutKv(1, raised, x)
  \/ CheckoutInsert(1)
  \/ OrderFirst(1)

SpecCheckout == Init /\ [][NextCheckout]_vars

\* Concurrent checkouts and order listings while time passes
NextOrders ==
  \/ \E r \in Reqs : Receive(r, "POST", <<"checkout">>)
  \/ \E r \in Reqs : Receive(r, "GET", <<"orders">>)
  \/ \E r \in Reqs, b \in ValidBodies, x \in Rands : CheckoutParse(r, b, x)
  \/ \E r \in Reqs : CheckoutInsert(r)
  \/ \E r \in Reqs : OrdersSelect(r)
  \/ \E r \in Reqs, i \in 1..MaxOrders : OrdersRefetch(r, i)
  \/ \E t \in Times : Tick(t)

SpecOrders == InitServing /\ [][NextOrders]_vars

\* Product listings while the Product Store is written to
NextProducts ==
  \/ Receive(1, "GET", <<"products">>)
  \/ \E raised \in BOOLEAN : ProductsList(1, raised)
  \/ \E i \in 1..Len(KeyOrder), raised \in BOOLEAN : ProductsGet(1, i, raised)
  \/ \E key \in ProductIds : KvPut(key)
  \/ \E key \in ProductIds : KvDelete(key)

SpecProducts == Init /\ [][NextProducts]_vars

(* ------------------------------ claims --------------------------------- *)
RouteOf(q) == Route(q.method, q.path)
Done(r) == req[r].pc = "done"
DoneOn(r, rt) == Done(r) /\ RouteOf(req[r]) = rt

\* C1 as stated: every response the router returns carries both
\* Content-Type: application/json and Access-Control-Allow-Origin: *.
C1_EveryResponseJsonAndCors ==
  \A r \in Reqs : Done(r) => JsonHeaders \subseteq req[r].resp.headers

\* C1 amended: every response to a request other than OPTIONS carries both
\* headers; the OPTIONS preflight carries Access-Control-Allow-Origin: * with
\* Allow-Methods and Allow-Headers, and no Content-Type.
C1_NonPreflightJsonAndCors ==
  \A r \in Reqs : Done(r) =>
    IF req[r].method = "OPTIONS"
      THEN /\ AllowOrigin \in req[r].resp.headers
           /\ \A h \in req[r].resp.headers : h[1] # "Content-Type"
      ELSE JsonHeaders \subseteq req[r].resp.headers

C1_Witness ==
  \E r \in Reqs :
    /\ Done(r)
    /\ req[r].method = "GET"
    /\ req[r].resp.status = StatusMissing
    /\ JsonHeaders \subseteq req[r].resp.headers

\* C2 as stated: a checkout whose body does not parse as JSON, or parses but
\* lacks a truthy name, phone or address or an items array, is answered 400
\* with the missing-fields error, and no order is inserted.
C2_MalformedBodyIs400 ==
  \A r \in Reqs :
    ( /\ DoneOn(r, "checkout")
      /\ \/ req[r].body.kind = "unparseable"
         \/ req[r].body.kind = "object" /\ RequiredMissing(req[r].body) )
    => /\ req[r].resp = MissingFields
       /\ \A j \in 1..Len(placed) : placed[j].orderId # req[r].oid

\* C3 as stated: with the required fields present, an empty items array gives
\* 400 'Cart is empty'; otherwise an item without a truthy id, or whose quantity
\* is not a number >= 1, gives 400 with invalidItem the first such item, and
\* when there is none item validation passes.
QuantityIsNumberAtLeastOne(v) ==
  \/ v.t = "infinity"
  \/ v.t = "number" /\ v.n >= 1
ItemRejectedByClaim(item) ==
  ~Truthy(item.id) \/ ~QuantityIsNumberAtLeastOne(item.quantity)
FirstRejected(items) ==
  items[CHOOSE j \in 1..Len(items) :
          /\ ItemRejectedByClaim(items[j])
          /\ \A k \in 1..(j - 1) : ~ItemRejectedByClaim(items[k])]
C3_FirstInvalidItemIs400 ==
  \A r \in Reqs :
    ( /\ DoneOn(r, "checkout")
      /\ req[r].body.kind = "object"
      /\ ~RequiredMissing(req[r].body) )
    => LET items == req[r].body.items
       IN IF Len(items) = 0 THEN req[r].resp = CartEmpty
          ELSE IF \E j \in 1..Len(items) : ItemRejectedByClaim(items[j])
            THEN req[r].resp = InvalidItem(FirstRejected(items))
          ELSE req[r].resp.status # StatusBad

\* C4: the Order Store only grows and its rows never change; a step adds a
\* row exactly when a POST /checkout completes with 201, and then it adds
\* exactly one; every other step (any other request, any checkout answered
\* 400 or 500) leaves the Order Store as it was.
Completes201(r) ==
  /\ req[r].pc # "done"
  /\ req'[r].pc = "done"
  /\ Route(req'[r].method, req'[r].path) = "checkout"
  /\ req'[r].resp.status = StatusCreated
C4_Step ==
  /\ Len(orders') >= Len(orders)
  /\ Len(orders') <= Len(orders) + 1
  /\ \A j \in 1..Len(orders) : orders'[j] = orders[j]
  /\ (Len(orders') = Len(orders) + 1) <=> (\E r \in Reqs : Completes201(r))
C4_OrdersOnlyGrowBy201 == [][C4_Step]_vars

C4_Witness ==
  /\ Len(orders) >= 1
  /\ \E r \in Reqs : DoneOn(r, "checkout") /\ req[r].resp.status = StatusError
  /\ \E r \in Reqs : DoneOn(r, "orders") /\ req[r].resp.status = StatusOK

\* C5 as stated: after a checkout answered 201 with orderId X, a later
\* GET /order/X is answered 200 with an items array equal, element by element
\* and in order, to the items submitted in that checkout.
C5_ItemsRoundTrip ==
  \A r \in Reqs : DoneOn(r, "order") =>
    \A j \in 1..Len(placed) :
      placed[j].orderId = LastSegment(req[r].path) =>
        /\ req[r].resp.status = StatusOK
        /\ req[r].resp.body.kind = "order"
        /\ req[r].resp.body.items = placed[j].items

\* C6: no two checkouts, sequential or concurrent, in the same millisecond or
\* not, are answered with the same orderId, and no two rows of the Order
\* Store share an id.
C6_OrderIdsUnique ==
  /\ \A j, k \in 1..Len(placed) : j # k => placed[j].orderId # placed[k].orderId
  /\ \A j, k \in 1..Len(orders) : j # k => orders[j].id # orders[k].id
  /\ \A r1, r2 \in Reqs :
       ( /\ r1 # r2
         /\ DoneOn(r1, "checkout") /\ req[r1].resp.status = StatusCreated
         /\ DoneOn(r2, "checkout") /\ req[r2].resp.status = StatusCreated )
       => req[r1].resp.body.orderId # req[r2].resp.body.orderId

C6_Witness ==
  /\ Len(placed) >= 2
  /\ placed[1].orderId.ts = placed[2].orderId.ts
  /\ \E r \in Reqs : DoneOn(r, "checkout") /\ req[r].resp = KeyConflict

\* C7: a GET /orders answered 200 has one entry per row of the initial
\* select, in that select's order (created_at descending, strictly so when the
\* timestamps are distinct), whatever order the re-fetches settle in and
\* whatever checkouts run meanwhile, and each entry carries the parsed items
\* of the order with the same id.
StoredItems(id) == RowsById(orders, id)[1].items
PassesValidation(b) ==
  /\ b.kind = "object"
  /\ ~RequiredMissing(b)
  /\ Len(b.items) > 0
  /\ \A j \in 1..Len(b.items) : ~ItemInvalid(b.items[j])
C8_LookupNeverFailsCheckout ==
  \A r \in Reqs :
    ( /\ DoneOn(r, "checkout")
      /\ PassesValidation(req[r].body)
      /\ dbBound /\ tableExists
      /\ req[r].resp # KeyConflict )
    => LET q == req[r]
           b == q.body
       IN /\ q.resp = Created(q.oid, q.cat, b)
          /\ RowsById(orders, q.oid) =
               << Row(q.oid, b.name.s, b.phone.s, b.address.s,
                      StringifyItems(b.items), q.cat) >>

C8_Witness ==
  \E r \in Reqs :
    /\ DoneOn(r, "checkout")
    /\ req[r].resp.status = StatusCreated
    /\ {"raised", "missing"} \subseteq req[r].log

\* C9: an OPTIONS request on any path is answered by the preflight; every
\* other request that is none of GET /products, GET /product/:id,
\* POST /checkout, GET /orders, GET /order/:id, GET /health is answered at
\* once with the default descriptor, status 200, and touches neither store.
MatchesARoute(method, path) ==
  \/ method = "GET" /\ path = <<"products">>
  \/ method = "GET" /\ Len(path) >= 2 /\ path[1] = "product"
  \/ method = "POST" /\ path = <<"checkout">>
  \/ method = "GET" /\ path = <<"orders">>
  \/ method = "GET" /\ Len(path) >= 2 /\ path[1] = "order"
  \/ method = "GET" /\ path = <<"health">>
C9_Step ==
  \A r \in Reqs :
    req'[r] # req[r] =>
      /\ req'[r].method = "OPTIONS" =>
           /\ req'[r].pc = "done"
           /\ req'[r].resp = Preflight
           /\ orders' = orders /\ kv' = kv
      /\ (req'[r].method # "OPTIONS" /\ ~MatchesARoute(req'[r].method, req'[r].path)) =>
           /\ req'[r].pc = "done"
           /\ req'[r].resp = DefaultResponse
           /\ req'[r].resp.status = StatusOK
           /\ orders' = orders /\ kv' = kv
C9_UnmatchedGetsDefault == [][C9_Step]_vars

C9_Witness ==
  \E r \in Reqs :
    /\ Done(r)
    /\ req[r].method = "DELETE"
    /\ req[r].path = <<"products">>
    /\ req[r].resp = DefaultResponse

\* C10: GET /products with the Product Store bound and no lookup raising is
\* answered 200 with the documents of the listed keys whose fetch was not
\* not-found, in key-listing order, whatever order the fetches settle in; with
\* no key it is answered 200 with the empty array and no fetch is made.
Fetched(q, j) == CHOOSE d \in {Doc(q.rows[j]), NullDoc} : <<q.rows[j], d>> \in q.log
C10_ProductsListing ==
  \A r \in Reqs :
    (DoneOn(r, "products") /\ req[r].resp \notin {KvNotConfigured, KvError}) =>
      LET q == req[r]
          found == { j \in 1..Len(q.rows) : Fetched(q, j) # NullDoc }
          list == q.resp.body.list
      IN /\ q.resp.status = StatusOK
         /\ Cardinality(q.log) = Len(q.rows)
         /\ Len(list) = Cardinality(found)
         /\ \A j \in found :
              list[Cardinality({k \in found : k <= j})] = Fetched(q, j)

C10_Witness ==
  \E r \in Reqs :
    /\ DoneOn(r, "products")
    /\ req[r].resp.status = StatusOK
    /\ Len(req[r].rows) = 2
    /\ <<req[r].rows[1], NullDoc>> \in req[r].log
    /\ Len(req[r].resp.body.list) = 1

====
